---- MODULE Spec2Model ----
(***************************************************************************)
(* Model of the CPU counting utility (cpucount_linux.cpp): the bit-field   *)
(* helpers find_maskwidth and getSubID, the bucket counters                *)
(* countAvailableCores and countPhysicalPacks, the probe CPUCount with its *)
(* use of the process affinity mask, and main with its two assertions.     *)
(***************************************************************************)
EXTENDS Integers, Naturals, Sequences, FiniteSets, TLC

\* ------------------------------------------------------------------ bounds
\* Largest value of sysconf(_SC_NPROCESSORS_CONF) explored.
MaxProc == 3
\* Largest value of CPUID.1:EBX[23:16] explored.
MaxLogicalField == 3
\* Largest value of CPUID.4:EAX[31:26] explored (cores per package - 1).
MaxCoreField == 2
\* Largest initial APIC id explored.
MaxApic == 4
\* Largest small value an unwritten table entry is taken to hold (a value
\* that can coincide with a written id).
MaxGarbage == 1
\* Largest countItem handed to find_maskwidth on its own.
MaxCountItem == 65540
\* Largest fullID, maxSubIDValue and shiftCount handed to getSubID on its own.
MaxFullID == 300
MaxSubIDValue == 9
MaxShift == 8
\* Longest table handed to the bucket counters on their own.
MaxTbl == 4
\* Largest count handed to the classification on its own.
MaxCnt == 8

\* ------------------------------------------------------- program constants
USER_CONFIG_ISSUE == 0
SINGLE_CORE_AND_HT_NOT_CAPABLE == 1
SINGLE_CORE_AND_HT_ENABLED == 2
SINGLE_CORE_AND_HT_DISABLED == 3
MULTI_CORE_AND_HT_NOT_CAPABLE == 4
MULTI_CORE_AND_HT_ENABLED == 5
MULTI_CORE_AND_HT_DISABLED == 6

VARIABLES
    \* the build (what the compiler made of find_maskwidth and of the shifts)
    eaxClobbered,     \* %eax no longer holds count when the second asm statement runs
    shiftFolded,      \* a shift by 32 or more gives 0 instead of using the count modulo 32
    \* hardware (what the cpuid instruction reports)
    mtSupported,      \* MTSupported() # 0
    ebxLogical,       \* CPUID.1:EBX[23:16]
    maxInput,         \* get_max_input_value()
    eaxCores,         \* CPUID.4:EAX[31:26]
    apicSeen,         \* APIC ids already handed out (they are unique per processor)
    \* operating system
    curMask,          \* the process affinity mask
    \* CPUCount locals
    pc,
    numProcessors,
    sysAffinityMask,
    logicalPerPack,
    corePerPack,
    logicalPerCore,
    j,
    numLPEnabled,
    tblPkgID,
    tblCoreID,
    tblSMTID,
    pinCalls,         \* number of misc_sched_setaffinity calls made so far
    result,           \* value returned by CPUCount
    \* main locals
    totAvailLogical,
    totAvailCore,
    totPhysPack,
    exitCode,
    \* a function called on its own: its arguments, its result, its position
    fnArgs,
    fnResult,
    fnResult2,        \* result of calling it again on its own result
    fnPc

hwVars == <<eaxClobbered, shiftFolded, mtSupported, ebxLogical, maxInput, eaxCores,
           apicSeen>>
probeVars == <<curMask, pc, numProcessors, sysAffinityMask, logicalPerPack,
               corePerPack, logicalPerCore, j, numLPEnabled, tblPkgID,
               tblCoreID, tblSMTID, pinCalls, result>>
mainVars == <<totAvailLogical, totAvailCore, totPhysPack, exitCode>>
fnVars == <<fnArgs, fnResult, fnResult2, fnPc>>
vars == <<hwVars, probeVars, mainVars, fnVars>>

\* ------------------------------------------------------- C integer operators
\* a | b on unsigned values.
RECURSIVE BitOr(_, _)
BitOr(a, b) ==
    IF a = 0 THEN b
    ELSE IF b = 0 THEN a
    ELSE (IF a % 2 = 1 \/ b % 2 = 1 THEN 1 ELSE 0) + 2 * BitOr(a \div 2, b \div 2)

\* A 32-bit mask is kept as the set of the positions of its one bits.
Bits(x) == {i \in 0..30 : (x \div (2 ^ i)) % 2 = 1}

RECURSIVE Value(_)
Value(S) ==
    IF S = {} THEN 0
    ELSE LET i == CHOOSE k \in S : TRUE IN 2 ^ i + Value(S \ {i})

\* 0xff << n in 32 bits.  A count of 32 or more is undefined in C: the shl
\* instruction takes it modulo 32, a compiler that folds the shift gives 0.
ShiftFF(n) ==
    LET c == IF shiftFolded THEN n ELSE n % 32
    IN  {i \in c..(c + 7) : i <= 31}

\* a ^ b on masks.
MaskXor(A, B) == (A \cup B) \ (A \cap B)

\* x & mask on a value below 2^31.
AndMask(x, M) == Value(Bits(x) \cap M)

\* bsr: index of the highest set bit of x (x > 0).
RECURSIVE Bsr(_)
Bsr(x) == IF x <= 1 THEN 0 ELSE 1 + Bsr(x \div 2)

\* ------------------------------------------------------------ find_maskwidth
\* Three asm statements: (1) push, push, xorl %ecx,%ecx with count in %eax;
\* (2) decl %eax ; bsrw %ax,%cx ; jz next ; incw %cx; (3) next: pop, pop.
\* Statement (2) names no input, so what %eax holds there is up to the
\* compiler: count when it leaves %eax alone between the statements, 0 when
\* it stores the first statement's output through %eax (movl %ecx,%eax).
\* The decrement wraps, bsrw reads the low 16 bits only, and on a zero
\* operand it sets ZF and leaves %cx at the zero that xorl put there.
\* Builds that do not keep the pushes and pops paired do not return from the
\* function and are not modelled.
find_maskwidth(countItem) ==
    LET eax == IF eaxClobbered THEN 0 ELSE countItem
        ax == (eax + 65535) % 65536
    IN  IF ax = 0 THEN 0 ELSE Bsr(ax) + 1

\* ------------------------------------------------------------------ getSubID
getSubID_noUpper(fullID, maxSubIDValue, shiftCount) ==
    AndMask(fullID, ShiftFF(shiftCount))

getSubID(fullID, maxSubIDValue, shiftCount) ==
    LET maskWidth == find_maskwidth(maxSubIDValue)
        maskBits == MaskXor(ShiftFF(shiftCount), ShiftFF(shiftCount + maskWidth))
    IN  AndMask(fullID, maskBits)

\* ------------------------------------------------------- countAvailableCores
\* The bucket list is the sequence bucket; total is its length.
RECURSIVE CoreScan(_, _, _, _, _)
CoreScan(pkg, core, n, procNum, bucket) ==
    IF procNum >= n THEN Len(bucket)
    ELSE LET key == BitOr(pkg[procNum], core[procNum])
         IN  IF \E i \in 1..Len(bucket) : bucket[i] = key
             THEN CoreScan(pkg, core, n, procNum + 1, bucket)
             ELSE CoreScan(pkg, core, n, procNum + 1, Append(bucket, key))

countAvailableCores_pairs(pkg, core, n) ==
    Cardinality({<<pkg[i], core[i]>> : i \in 0..(n - 1)})

countAvailableCores(pkg, core, n) ==
    CoreScan(pkg, core, n, 1, <<BitOr(pkg[0], core[0])>>)

\* -------------------------------------------------------- countPhysicalPacks
RECURSIVE PackScan(_, _, _, _)
PackScan(pkg, n, procNum, bucket) ==
    IF procNum >= n THEN Len(bucket)
    ELSE IF \E i \in 1..Len(bucket) : bucket[i] = pkg[procNum]
         THEN PackScan(pkg, n, procNum + 1, bucket)
         ELSE PackScan(pkg, n, procNum + 1, Append(bucket, pkg[procNum]))

countPhysicalPacks(pkg, n) == PackScan(pkg, n, 1, <<pkg[0]>>)

\* ------------------------------------------------- classification in CPUCount
Classify_swapped(availCore, physPack, perCore, lpEnabled) ==
    IF availCore > physPack
    THEN IF perCore = 1 THEN MULTI_CORE_AND_HT_NOT_CAPABLE
         ELSE IF lpEnabled > availCore THEN MULTI_CORE_AND_HT_DISABLED
         ELSE MULTI_CORE_AND_HT_ENABLED
    ELSE IF perCore = 1 THEN SINGLE_CORE_AND_HT_NOT_CAPABLE
         ELSE IF lpEnabled > availCore THEN SINGLE_CORE_AND_HT_ENABLED
         ELSE SINGLE_CORE_AND_HT_DISABLED

Classify(availCore, physPack, perCore, lpEnabled) ==
    IF availCore > physPack
    THEN IF perCore = 1 THEN MULTI_CORE_AND_HT_NOT_CAPABLE
         ELSE IF lpEnabled > availCore THEN MULTI_CORE_AND_HT_ENABLED
         ELSE MULTI_CORE_AND_HT_DISABLED
    ELSE IF perCore = 1 THEN SINGLE_CORE_AND_HT_NOT_CAPABLE
         ELSE IF lpEnabled > availCore THEN SINGLE_CORE_AND_HT_ENABLED
         ELSE SINGLE_CORE_AND_HT_DISABLED

\* ------------------------------------------------------------ cpuid readers
logicalProcessorsPerPackage == IF ~mtSupported THEN 1 ELSE ebxLogical

multiCoresPerProcPak == IF maxInput >= 4 THEN eaxCores + 1 ELSE 1

\* ------------------------------------------------------------------ CPUCount
\* The loop of lines 416-420: every configured processor is in the mask.
AllConfiguredEnabled_skipFirst(n, mask) == \A i \in 1..(n - 1) : i \in mask

AllConfiguredEnabled(n, mask) == \A i \in 0..(n - 1) : i \in mask

\* tbl[idx] = v on an array of which only the written entries are recorded.
TblSet(tbl, idx, v) ==
    [i \in (DOMAIN tbl) \cup {idx} |-> IF i = idx THEN v ELSE tbl[i]]

\* The array as the counters read it: written entries, and for the entries
\* never written whatever the stack held (g).
Filled(tbl, g) ==
    [i \in 0..(MaxProc - 1) |->
        IF i \in DOMAIN tbl THEN tbl[i]
        ELSE IF i \in DOMAIN g THEN g[i] ELSE 0]

\* What an entry of tblPkgID or tblCoreID (locals of line 400, never
\* initialised) can hold when it was never written: a small value, which may
\* equal a written id, or a word left on the stack, which equals none.
UnwrittenValues == (0..MaxGarbage) \cup {32764, 131072}

\* Entries the two counters read: 0 .. numLPEnabled-1, and entry 0 always.
ReadByCounters(n) == 0..((IF n > 1 THEN n ELSE 1) - 1)

\* The builds: a shift count reaches 32 only when %eax is clobbered.
BuildChoice ==
    /\ eaxClobbered \in BOOLEAN
    /\ shiftFolded \in BOOLEAN
    /\ shiftFolded => eaxClobbered

\* The machine: the fields the program never reads are left at one value.
HardwareChoice ==
    /\ mtSupported \in BOOLEAN
    /\ ebxLogical \in 1..MaxLogicalField
    /\ ~mtSupported => ebxLogical = 1
    /\ maxInput \in {1, 4}
    /\ eaxCores \in 0..MaxCoreField
    /\ maxInput < 4 => eaxCores = 0

Init ==
    /\ BuildChoice
    /\ HardwareChoice
    /\ apicSeen = {}
    /\ curMask \in (SUBSET (0..(MaxProc - 1))) \ {{}}
    /\ pc = "start"
    /\ numProcessors = 0
    /\ sysAffinityMask = {}
    /\ logicalPerPack = 0
    /\ corePerPack = 0
    /\ logicalPerCore = 0
    /\ j = 0
    /\ numLPEnabled = 0
    /\ tblPkgID = << >>
    /\ tblCoreID = << >>
    /\ tblSMTID = << >>
    /\ pinCalls = 0
    /\ result = -1
    /\ totAvailLogical = 0
    /\ totAvailCore = 0
    /\ totPhysPack = 0
    /\ exitCode = 0
    /\ fnArgs = << >>
    /\ fnResult = 0
    /\ fnResult2 = 0
    /\ fnPc = "off"

\* Lines 403-420: defaults, sysconf, sched_getaffinity, the mask check.
CPUCountEntry ==
    /\ pc = "start"
    /\ \E n \in 1..MaxProc :
        /\ numProcessors' = n
        /\ sysAffinityMask' = curMask
        /\ totAvailCore' = 1
        /\ totPhysPack' = 1
        /\ IF AllConfiguredEnabled(n, curMask)
           THEN pc' = "counts" /\ result' = result
           ELSE pc' = "returned" /\ result' = USER_CONFIG_ISSUE
    /\ UNCHANGED <<hwVars, curMask, logicalPerPack, corePerPack, logicalPerCore,
                   j, numLPEnabled, tblPkgID, tblCoreID, tblSMTID, pinCalls,
                   totAvailLogical, exitCode, fnVars>>

\* Lines 424-444.
ReadCounts ==
    /\ pc = "counts"
    /\ logicalPerPack' = logicalProcessorsPerPackage
    /\ corePerPack' = multiCoresPerProcPak
    /\ IF corePerPack' <= 0
       THEN /\ pc' = "returned"
            /\ result' = USER_CONFIG_ISSUE
            /\ UNCHANGED logicalPerCore
       ELSE /\ pc' = "loop"
            /\ result' = result
            /\ logicalPerCore' = logicalPerPack' \div corePerPack'
    /\ j' = 0
    /\ UNCHANGED <<hwVars, curMask, numProcessors, sysAffinityMask, numLPEnabled,
                   tblPkgID, tblCoreID, tblSMTID, pinCalls, mainVars, fnVars>>

\* Lines 446-451, 487: misc_sched_setaffinity fails; the processor is skipped.
PinFails ==
    /\ pc = "loop"
    /\ j < numProcessors
    /\ pinCalls' = pinCalls + 1
    /\ j' = j + 1
    /\ UNCHANGED <<hwVars, curMask, pc, numProcessors, sysAffinityMask,
                   logicalPerPack, corePerPack, logicalPerCore, numLPEnabled,
                   tblPkgID, tblCoreID, tblSMTID, result, mainVars, fnVars>>

\* Index of the entry the record of processor j is stored at (lines 464-472).
RecordIndex == j

\* Lines 446-487: misc_sched_setaffinity succeeds and the record is computed.
PinSucceeds ==
    /\ pc = "loop"
    /\ j < numProcessors
    /\ pinCalls' = pinCalls + 1
    /\ curMask' = {j}
    /\ \E apicID \in (0..MaxApic) \ apicSeen :
        /\ apicSeen' = apicSeen \cup {apicID}
        /\ tblSMTID' = TblSet(tblSMTID, RecordIndex,
                              getSubID(apicID, logicalPerCore, 0))
        /\ tblCoreID' = TblSet(tblCoreID, RecordIndex,
                               getSubID(apicID, corePerPack,
                                        find_maskwidth(logicalPerCore)))
        /\ tblPkgID' = TblSet(tblPkgID, RecordIndex,
                              AndMask(apicID, ShiftFF(find_maskwidth(logicalPerPack))))
    /\ numLPEnabled' = numLPEnabled + 1
    /\ j' = j + 1
    /\ UNCHANGED <<eaxClobbered, shiftFolded, mtSupported, ebxLogical, maxInput,
                   eaxCores, pc, numProcessors,
                   sysAffinityMask, logicalPerPack, corePerPack, logicalPerCore,
                   result, mainVars, fnVars>>

\* Line 493: misc_sched_setaffinity(0, &sysAffinityMask); the code does not
\* look at its return value.  When the call succeeds the mask read at entry
\* is installed again; when it fails (as the same call can at line 451) the
\* mask stays what the last successful pin made it.
RestoreAffinity ==
    /\ pc = "loop"
    /\ j >= numProcessors
    /\ \E stat \in {0, -1} :
        curMask' = IF stat = 0 THEN sysAffinityMask ELSE curMask
    /\ pinCalls' = pinCalls + 1
    /\ pc' = "aggregate"
    /\ UNCHANGED <<hwVars, numProcessors, sysAffinityMask, logicalPerPack,
                   corePerPack, logicalPerCore, j, numLPEnabled, tblPkgID,
                   tblCoreID, tblSMTID, result, mainVars, fnVars>>

\* Lines 497-536: the counters and the classification.
Aggregate ==
    /\ pc = "aggregate"
    /\ LET unwritten == ReadByCounters(numLPEnabled) \ DOMAIN tblPkgID
       IN  \E gp \in [unwritten -> UnwrittenValues], gc \in [unwritten -> UnwrittenValues] :
            LET pkg  == Filled(tblPkgID, gp)
                core == Filled(tblCoreID, gc)
                cores == countAvailableCores(pkg, core, numLPEnabled)
                packs == countPhysicalPacks(pkg, numLPEnabled)
            IN  /\ totAvailLogical' = numLPEnabled
                /\ totAvailCore' = cores
                /\ totPhysPack' = packs
                /\ result' = Classify(cores, packs, logicalPerCore, numLPEnabled)
    /\ pc' = "returned"
    /\ UNCHANGED <<hwVars, curMask, numProcessors, sysAffinityMask, logicalPerPack,
                   corePerPack, logicalPerCore, j, numLPEnabled, tblPkgID,
                   tblCoreID, tblSMTID, pinCalls, exitCode, fnVars>>

\* ---------------------------------------------------------------------- main
\* Lines 554-558: the two assertions on what CPUCount stored.
MainAsserts ==
    /\ pc = "returned"
    /\ LET cpp == multiCoresPerProcPak
           lpp == logicalProcessorsPerPackage
       IN  IF /\ totPhysPack * cpp >= totAvailCore
              /\ totPhysPack * lpp >= totAvailLogical
           THEN pc' = "print"
           ELSE pc' = "aborted"
    /\ UNCHANGED <<hwVars, curMask, numProcessors, sysAffinityMask, logicalPerPack,
                   corePerPack, logicalPerCore, j, numLPEnabled, tblPkgID,
                   tblCoreID, tblSMTID, pinCalls, result, mainVars, fnVars>>

\* The switch of printAttributes: the cases that call exit(1).
printAttributesExits(sysAttributes) ==
    sysAttributes \notin {MULTI_CORE_AND_HT_NOT_CAPABLE, SINGLE_CORE_AND_HT_NOT_CAPABLE,
                          SINGLE_CORE_AND_HT_DISABLED, SINGLE_CORE_AND_HT_ENABLED,
                          MULTI_CORE_AND_HT_DISABLED, MULTI_CORE_AND_HT_ENABLED}

\* Lines 562-568: the report; exit(1) in printAttributes or return 0.
PrintReport ==
    /\ pc = "print"
    /\ exitCode' = IF printAttributesExits(result) THEN 1 ELSE 0
    /\ pc' = "exited"
    /\ UNCHANGED <<hwVars, curMask, numProcessors, sysAffinityMask, logicalPerPack,
                   corePerPack, logicalPerCore, j, numLPEnabled, tblPkgID,
                   tblCoreID, tblSMTID, pinCalls, result, totAvailLogical,
                   totAvailCore, totPhysPack, fnVars>>

Next ==
    \/ CPUCountEntry
    \/ ReadCounts
    \/ PinFails
    \/ PinSucceeds
    \/ RestoreAffinity
    \/ Aggregate
    \/ MainAsserts
    \/ PrintReport

Spec == Init /\ [][Next]_vars

\* ------------------------------------------------ the functions on their own
\* The program is not running while a function is exercised on its own.
Parked ==
    /\ shiftFolded = FALSE
    /\ mtSupported = FALSE
    /\ ebxLogical = 0
    /\ maxInput = 1
    /\ eaxCores = 0
    /\ apicSeen = {}
    /\ curMask = {0}
    /\ pc = "off"
    /\ numProcessors = 0
    /\ sysAffinityMask = {}
    /\ logicalPerPack = 0
    /\ corePerPack = 0
    /\ logicalPerCore = 0
    /\ j = 0
    /\ numLPEnabled = 0
    /\ tblPkgID = << >>
    /\ tblCoreID = << >>
    /\ tblSMTID = << >>
    /\ pinCalls = 0
    /\ result = -1
    /\ totAvailLogical = 0
    /\ totAvailCore = 0
    /\ totPhysPack = 0
    /\ exitCode = 0

progVars == <<hwVars, probeVars, mainVars>>

\* find_maskwidth(countItem), countItem >= 1.
InitMaskWidth ==
    /\ Parked
    /\ eaxClobbered \in BOOLEAN
    /\ fnArgs \in {<<n>> : n \in 1..MaxCountItem}
    /\ fnResult = 0
    /\ fnResult2 = 0
    /\ fnPc = "call"

CallFindMaskwidth ==
    /\ fnPc = "call"
    /\ fnResult' = find_maskwidth(fnArgs[1])
    /\ fnPc' = "done"
    /\ UNCHANGED <<progVars, fnArgs, fnResult2>>

SpecMaskWidth == InitMaskWidth /\ [][CallFindMaskwidth]_vars

\* getSubID(fullID, maxSubIDValue, shiftCount), then again on its result.
InitSubID ==
    /\ Parked
    /\ eaxClobbered \in BOOLEAN
    /\ fnArgs \in (0..MaxFullID) \X (1..MaxSubIDValue) \X (0..MaxShift)
    /\ fnResult = 0
    /\ fnResult2 = 0
    /\ fnPc = "call"

CallGetSubID ==
    /\ fnPc = "call"
    /\ fnResult' = getSubID(fnArgs[1], fnArgs[2], fnArgs[3])
    /\ fnPc' = "once"
    /\ UNCHANGED <<progVars, fnArgs, fnResult2>>

CallGetSubIDAgain ==
    /\ fnPc = "once"
    /\ fnResult2' = getSubID(fnResult, fnArgs[2], fnArgs[3])
    /\ fnPc' = "done"
    /\ UNCHANGED <<progVars, fnArgs, fnResult>>

NextSubID == CallGetSubID \/ CallGetSubIDAgain

SpecSubID == InitSubID /\ [][NextSubID]_vars

\* countAvailableCores(tblPkgID, tblCoreID, numLPEnabled) on a table of n
\* records; the entries past the table hold zero.
TblPkgVals == {0, 2}
TblCoreVals == {0, 1, 2}

InitCount ==
    /\ Parked
    /\ eaxClobbered = FALSE
    /\ fnArgs \in {a \in [pkg : [0..(MaxTbl - 1) -> TblPkgVals],
                          core : [0..(MaxTbl - 1) -> TblCoreVals],
                          n : 0..MaxTbl] :
                     \A i \in 0..(MaxTbl - 1) :
                        i >= a.n => (a.pkg[i] = 0 /\ a.core[i] = 0)}
    /\ fnResult = 0
    /\ fnResult2 = 0
    /\ fnPc = "call"

CallCountAvailableCores ==
    /\ fnPc = "call"
    /\ fnResult' = countAvailableCores(fnArgs.pkg, fnArgs.core, fnArgs.n)
    /\ fnPc' = "done"
    /\ UNCHANGED <<progVars, fnArgs, fnResult2>>

SpecCount == InitCount /\ [][CallCountAvailableCores]_vars

\* The classification of lines 512-534 on four counts.
InitClassify ==
    /\ Parked
    /\ eaxClobbered = FALSE
    /\ fnArgs \in (0..MaxCnt) \X (0..MaxCnt) \X (0..MaxCnt) \X (0..MaxCnt)
    /\ fnResult = 0
    /\ fnResult2 = 0
    /\ fnPc = "call"

CallClassify ==
    /\ fnPc = "call"
    /\ fnResult' = Classify(fnArgs[1], fnArgs[2], fnArgs[3], fnArgs[4])
    /\ fnPc' = "done"
    /\ UNCHANGED <<progVars, fnArgs, fnResult2>>

SpecClassify == InitClassify /\ [][CallClassify]_vars

\* ==================================================================== claims
\* CPUCount has returned to main (main may since have gone on).
ProbeReturned == pc \in {"returned", "print", "exited", "aborted"}

\* The probe got past both early returns and ran the loop.
ProbeRanLoop == pc \in {"loop", "aggregate"} \/ (ProbeReturned /\ result # USER_CONFIG_ISSUE)

SomeConfiguredAbsent == \E i \in 0..(numProcessors - 1) : i \notin sysAffinityMask

\* C1: if a processor index in [0, numProcessors) is absent from the affinity
\* mask read at entry, CPUCount returns USER_CONFIG_ISSUE and no
\* misc_sched_setaffinity call has been made before that return.
C1_AbsentProcessorFailsBeforePinning ==
    (pc # "start" /\ SomeConfiguredAbsent) =>
        (ProbeReturned /\ result = USER_CONFIG_ISSUE /\ pinCalls = 0)

C1_Witness ==
    /\ pc = "returned"
    /\ numProcessors = 3
    /\ sysAffinityMask = {0, 2}
    /\ result = USER_CONFIG_ISSUE
    /\ pinCalls = 0

\* C2: on every return path of CPUCount, whatever pins failed or succeeded,
\* the process affinity mask at return is the mask read at entry.
C2_AffinityRestoredAtReturn == ProbeReturned => curMask = sysAffinityMask

\* C5: after every probe run that reaches aggregation, the distinct core count
\* is at least the distinct package count.
C5_CoresAtLeastPackages == ProbeReturned => totAvailCore >= totPhysPack

\* C8: when logicalPerCore = logicalPerPack / corePerPack is 0, no record is
\* computed from the zero count.
C8_NoRecordFromZeroCount ==
    (ProbeRanLoop /\ logicalPerCore = 0) =>
        (numLPEnabled = 0 /\ DOMAIN tblSMTID = {})

\* C9: every run ends with exit code 0 or 1, 1 exactly when CPUCount returned
\* USER_CONFIG_ISSUE (or an unexpected value); no run ends in a failed assertion.
C9_ExitsZeroOrOne ==
    /\ pc # "aborted"
    /\ pc = "exited" =>
          /\ exitCode \in {0, 1}
          /\ exitCode = 1 <=> result \notin 1..6

\* C10: the table handed to the counters holds the records of the pinned
\* processors at the indices 0 .. numLPEnabled-1 and the counters read no
\* unwritten entry.
C10_TableIndicesWithinLength ==
    (pc = "aggregate" \/ (ProbeReturned /\ result # USER_CONFIG_ISSUE)) =>
        /\ DOMAIN tblPkgID = 0..(numLPEnabled - 1)
        /\ DOMAIN tblCoreID = 0..(numLPEnabled - 1)

\* C11: whenever multithreading is unsupported (logicalProcessorsPerPackage
\* returns 1) and the probe reaches the classification, the result is
\* SINGLE_CORE_AND_HT_NOT_CAPABLE or MULTI_CORE_AND_HT_NOT_CAPABLE, whatever
\* multiCoresPerProcPak returned; it is never an HT-enabled or HT-disabled value.
C11_MTUnsupportedIsHTNotCapable ==
    (ProbeReturned /\ result # USER_CONFIG_ISSUE /\ ~mtSupported) =>
        result \in {SINGLE_CORE_AND_HT_NOT_CAPABLE, MULTI_CORE_AND_HT_NOT_CAPABLE}

\* --------------------------------------------------------- find_maskwidth
\* ceil(log2(n)): the least w with 2^w >= n.
CeilLog2(n) == CHOOSE w \in 0..20 : 2 ^ w >= n /\ (w = 0 \/ 2 ^ (w - 1) < n)

\* C6: for all n >= 1, find_maskwidth(n) = ceil(log2(n)): 0 for n = 1, else
\* the position of the highest set bit of n - 1 plus 1.
C6_MaskWidthIsCeilLog2 ==
    fnPc = "done" => fnResult = CeilLog2(fnArgs[1])

\* ----------------------------------------------------------------- getSubID
\* x with only the bits lo .. lo+width-1 kept.
FieldOf(x, lo, width) == ((x \div (2 ^ lo)) % (2 ^ width)) * (2 ^ lo)

SubIDIsField ==
    LET fullID == fnArgs[1]
        width == find_maskwidth(fnArgs[2])
        shiftCount == fnArgs[3]
    IN  /\ fnPc \in {"once", "done"} => fnResult = FieldOf(fullID, shiftCount, width)
        /\ fnPc = "done" => fnResult2 = fnResult

\* C7 as stated: for every unsigned rawId, getSubID keeps exactly the
\* maskWidth(maxCount) bits from shiftCount on, and re-applying it changes nothing.
C7_SubIDKeepsOnlyField == SubIDIsField

\* C7 amended: the same for every 8-bit fullID (0..255).
C7_SubIDKeepsOnlyFieldOf8BitID == fnArgs[1] <= 255 => SubIDIsField

C7_Witness ==
    /\ fnPc = "done"
    /\ fnArgs = <<181, 4, 2>>
    /\ fnResult = 4
    /\ fnResult2 = 4

\* ------------------------------------------------------ countAvailableCores
KeysOf(a) == {BitOr(a.pkg[i], a.core[i]) : i \in 0..(a.n - 1)}

Permuted(a, f) ==
    [pkg  |-> [i \in 0..(MaxTbl - 1) |-> IF i < a.n THEN a.pkg[f[i]] ELSE a.pkg[i]],
     core |-> [i \in 0..(MaxTbl - 1) |-> IF i < a.n THEN a.core[f[i]] ELSE a.core[i]],
     n    |-> a.n]

CountIsDistinctKeys ==
    /\ fnResult = Cardinality(KeysOf(fnArgs))
    /\ \A f \in Permutations(0..(fnArgs.n - 1)) :
          countAvailableCores(Permuted(fnArgs, f).pkg, Permuted(fnArgs, f).core,
                              fnArgs.n) = fnResult

\* C3 as stated: for every table, of any length, countAvailableCores is the
\* number of distinct packageId | coreId, whatever the order of the records.
C3_CountIsDistinctKeys == fnPc = "done" => CountIsDistinctKeys

\* C3 amended: the same for every table of at least one record.
C3_CountIsDistinctKeysNonEmpty ==
    (fnPc = "done" /\ fnArgs.n >= 1) => CountIsDistinctKeys

\* Four records with four distinct pairs of ids of which the keys coincide
\* two by two.
C3_Witness ==
    /\ fnPc = "done"
    /\ fnArgs.n = 4
    /\ Cardinality({<<fnArgs.pkg[i], fnArgs.core[i]>> : i \in 0..3}) = 4
    /\ fnResult = 2

\* ------------------------------------------------------------ classification
\* C4: the classification is one of the six values, decided by
\* cores > packages, logicalPerCore = 1 and enabled > cores as the claim lists.
C4_ClassificationTable ==
    fnPc = "done" =>
        LET c == fnArgs[1]
            p == fnArgs[2]
            l == fnArgs[3]
            e == fnArgs[4]
        IN  /\ fnResult \in 1..6
            /\ (c > p /\ l = 1) => fnResult = MULTI_CORE_AND_HT_NOT_CAPABLE
            /\ (c > p /\ l # 1 /\ e > c) => fnResult = MULTI_CORE_AND_HT_ENABLED
            /\ (c > p /\ l # 1 /\ e <= c) => fnResult = MULTI_CORE_AND_HT_DISABLED
            /\ (c <= p /\ l = 1) => fnResult = SINGLE_CORE_AND_HT_NOT_CAPABLE
            /\ (c <= p /\ l # 1 /\ e > c) => fnResult = SINGLE_CORE_AND_HT_ENABLED
            /\ (c <= p /\ l # 1 /\ e <= c) => fnResult = SINGLE_CORE_AND_HT_DISABLED
            /\ fnArgs = <<1, 1, 1, 1>> => fnResult = SINGLE_CORE_AND_HT_NOT_CAPABLE
            /\ fnArgs = <<4, 2, 2, 8>> => fnResult = MULTI_CORE_AND_HT_ENABLED

C4_Witness ==
    /\ fnPc = "done"
    /\ fnArgs = <<4, 2, 2, 8>>
    /\ fnResult = MULTI_CORE_AND_HT_ENABLED
====
